---- MODULE Spec2Model ----
(***************************************************************************)
(* Neotron BMC firmware: the power sequencer (button_poll, exit_reset,     *)
(* led_power_blink under the RTIC timer queue) and the PS/2 word decoder,  *)
(* for the two boards neotron-bmc-pico and neotron-bmc-nucleo.             *)
(*                                                                         *)
(* Time is counted in milliseconds.  All software tasks have priority 1    *)
(* and run to completion, so each task execution is one step; Advance      *)
(* moves the monotonic clock to the next instant at which a task is due.   *)
(***************************************************************************)
EXTENDS Integers, Sequences, FiniteSets, TLC

VARIABLES db_mask, db_state, db_edge, db_sample, db_last_edge,
    lk_stack, lk_pend,
    board,                      \* which firmware image runs: "pico" or "nucleo"
    state_dc_power_enabled,     \* Shared::state_dc_power_enabled
    led_power,                  \* power LED output pin (0 low, 1 high)
    pin_dc_on,                  \* DC-enable output pin
    pin_sys_reset,              \* system reset output pin (0 = asserted)
    led_state,                  \* led_power_blink's local led_state
    press_button_power_short,   \* debouncr state, Repeat2
    press_button_power_long,    \* debouncr state, Repeat16
    press_button_reset,         \* debouncr state, Repeat2 (pico) / Repeat16 (nucleo)
    pwr_short_edge,             \* button_poll locals of the latest poll
    pwr_long_edge,
    rst_long_edge,
    timer,                      \* task -> ms until it runs, or NotPending
    panicked,                   \* an unwrap() failed: the firmware has stopped
    last_task,                  \* the task that executed in the latest step
    effects,                    \* output operations of that execution, in program order
    pwr_changes,                \* environment: level changes of the power button so far
    rst_changes,                \* environment: level changes of the reset button so far
    quiet,                      \* environment: consecutive polls with both buttons at rest
    held_from,                  \* history: power state when the current press run began
    first_assert_age,           \* history: ms since the oldest unreleased reset assertion
    last_assert_age,            \* history: ms since the newest unreleased reset assertion
    fired_first_age,            \* history: first_assert_age seen by the latest exit_reset
    fired_last_age,             \* history: last_assert_age seen by the latest exit_reset
    bit_mask,                   \* Ps2Decoder::bit_mask
    collector,                  \* Ps2Decoder::collector
    add_bit_result,             \* what the latest add_bit returned (NoWord for None)
    fed,                        \* history: the bits given to add_bit since new()
    checked_word,               \* the word last given to check_word (NoWord: none yet)
    check_result,               \* what check_word returned for it (NoByte for None)
    kb_q,                       \* the words in the queue kb_q_in / kb_q_out, oldest first
    idle_word,                  \* idle's local word between dequeue and check (NoWord: none)
    kb_log,                     \* history: what idle has logged, in order
    sent,                       \* history: the complete 11-bit groups clocked in, as numbers
    cur,                        \* history: the bits of the group in progress
    emitted,                    \* history: the words add_bit has returned to the interrupt
    dequeued,                   \* history: the words idle has dequeued
    spe,                        \* SPI1 CR1.SPE: the peripheral is enabled
    count,                      \* SpiPeripheral::count
    reply_byte,                 \* SpiPeripheral::reply_byte (NoByte for None)
    tx_fifo,                    \* bytes written to SPI1 DR and not yet shifted out
    rx_fifo,                    \* bytes received into SPI1 DR and not yet read
    pin_cs,                     \* level of the chip-select input (1 high, 0 low)
    exti_pr4,                   \* EXTI pending bit of line 4 (a chip-select edge is latched)
    spi1_pc,                    \* where spi1_interrupt stands: "idle", "read" or "reply"
    spi1_b,                     \* spi1_interrupt's local b, the offset read() returned
    firmware_version,           \* RegisterState::firmware_version, as bytes
    session,                    \* history: how many times enable() has run
    n_exch,                     \* history: bus exchanges so far, all sessions together
    rx_hist,                    \* history: the bytes the host has sent since the last enable()
    tx_hist,                    \* history: <<source, byte>> shifted out on each of them
    reads,                      \* history: bytes read() has taken since the last enable()
    spi1_sess,                  \* history: the session in which read() returned spi1_b
    reply_sess,                 \* history: the session whose offset reply_byte answers
    before_enable,              \* history: <<count, reply_byte>> found by the latest enable()
    late,                       \* history: an exchange of this session began before
                                \*          spi1_interrupt had handled the bytes before it
    last_op                     \* history: the latest step of the bus server

pwrVars == <<state_dc_power_enabled, led_power, pin_dc_on, pin_sys_reset, led_state,
             press_button_power_short, press_button_power_long, press_button_reset,
             pwr_short_edge, pwr_long_edge, rst_long_edge, timer, panicked,
             last_task, effects, pwr_changes, rst_changes, quiet, held_from,
             first_assert_age, last_assert_age, fired_first_age, fired_last_age>>

ps2Vars == <<bit_mask, collector, add_bit_result, fed, checked_word, check_result>>

(* The debouncers with the edges of the latest poll, and the environment.  *)
debVars == <<press_button_power_short, press_button_power_long, press_button_reset,
             pwr_short_edge, pwr_long_edge, rst_long_edge>>

envVars == <<pwr_changes, rst_changes, quiet, held_from>>

(* The power sequencer's variables other than panicked.                    *)
pwrRest == <<state_dc_power_enabled, led_power, pin_dc_on, pin_sys_reset, led_state,
             debVars, timer, last_task, effects, envVars,
             first_assert_age, last_assert_age, fired_first_age, fired_last_age>>

kbVars == <<kb_q, idle_word, kb_log, sent, cur, emitted, dequeued>>

spiVars == <<spe, count, reply_byte, tx_fifo, rx_fifo, pin_cs, exti_pr4, spi1_pc, spi1_b,
             firmware_version, session, n_exch, rx_hist, tx_hist, reads, spi1_sess,
             reply_sess, before_enable, late, last_op>>

(* One debouncer on its own, with the sample it was last given and the     *)
(* last edge it reported.                                                  *)
dbVars == <<db_mask, db_state, db_edge, db_sample, db_last_edge>>

(* The stack of preempted and running tasks, and the pending tasks.        *)
lkVars == <<lk_stack, lk_pend>>

vars == <<board, pwrVars, ps2Vars, kbVars, spiVars, dbVars, lkVars>>

-----------------------------------------------------------------------------
(* Program constants *)

LED_PERIOD_MS == 1000

DEBOUNCE_POLL_INTERVAL_MS == 75

RESET_DURATION_MS == 250

Repeat2Mask == 3

Repeat16Mask == 65535

(* Bounds of the environment *)

MaxChangesPico == 5

MaxChangesNucleo == 3

MaxQuiet == 1

MaxBits == 12

MaxFrames == 9

MaxSessions == 2

MaxExchanges == 6

MaxExchangesRare == 2

(* Exchanges of the one long session of padding bytes: two more than the   *)
(* 256 values of the u8 count.                                             *)
MaxLongSession == 258

-----------------------------------------------------------------------------
Boards == {"pico", "nucleo"}

DcPowerState == {"Off", "Starting", "On"}

Tasks == {"button_poll", "led_power_blink", "exit_reset"}

NotPending == -1

NoAge == -1

Min(S) == CHOOSE x \in S : \A y \in S : x <= y

-----------------------------------------------------------------------------
(* debouncr::Debouncer::update for a RepeatN debouncer whose all-ones      *)
(* pattern is mask.  The shifted state has bit 0 clear, so OR-ing the      *)
(* sample in is an addition, and AND-ing with mask = 2^N - 1 is a          *)
(* remainder.  An edge is reported whenever the window becomes all ones    *)
(* (Rising) or all zeros (Falling) from any other content.                 *)
DebouncerUpdate_NoEarlyReturn(st, pressed, mask) ==
    LET s2 == ((st * 2) + (IF pressed THEN 1 ELSE 0)) % (mask + 1)
    IN  [state |-> s2,
         edge  |-> IF s2 = mask THEN "Rising"
                   ELSE IF s2 = 0 THEN "Falling"
                   ELSE "None"]

DebouncerUpdate(st, pressed, mask) ==
    IF st = mask /\ pressed THEN [state |-> st, edge |-> "None"]
    ELSE IF st = 0 /\ ~pressed THEN [state |-> st, edge |-> "None"]
    ELSE LET s2 == ((st * 2) + (IF pressed THEN 1 ELSE 0)) % (mask + 1)
         IN  [state |-> s2,
              edge  |-> IF s2 = mask THEN "Rising"
                        ELSE IF s2 = 0 THEN "Falling"
                        ELSE "None"]

(* How many level changes of the two buttons together a run may contain.   *)
MaxChanges(b) == IF b = "pico" THEN MaxChangesPico ELSE MaxChangesNucleo

(* The reset-button debouncer: press_button_reset_short, Repeat2, on the   *)
(* pico; press_button_reset_long, Repeat16, on the nucleo.                 *)
ResetMask(b) == IF b = "pico" THEN Repeat2Mask ELSE Repeat16Mask

-----------------------------------------------------------------------------
(* RTIC software tasks have capacity 1: spawn and spawn_after fail when an *)
(* instance of the task is already queued.  The slot is released when the  *)
(* task starts, so a task may re-arm itself.                               *)
SpawnAfter_Dropped(tq, task, delay) ==
    [ok |-> TRUE, tq |-> tq]

SpawnAfter_Rearm(tq, task, delay) ==
    [ok |-> TRUE, tq |-> [tq EXCEPT ![task] = delay]]

SpawnAfter(tq, task, delay) ==
    IF tq[task] # NotPending
    THEN [ok |-> FALSE, tq |-> tq]
    ELSE [ok |-> TRUE, tq |-> [tq EXCEPT ![task] = delay]]

Write(pin, level) == <<pin, level>>

SpawnOp(task) == <<"spawn", task>>

-----------------------------------------------------------------------------
(* The match of button_poll: the new power state for the two power-button  *)
(* edges of this poll and the current state.                               *)
Dispatch_OffOnLongFalling(long, short, st) ==
    IF long = "None" /\ short = "Rising" /\ st = "Off" THEN "Starting"
    ELSE IF long = "None" /\ short = "Falling" /\ st = "Starting" THEN "On"
    ELSE IF long = "Falling" /\ short = "None" /\ st = "On" THEN "Off"
    ELSE st

Dispatch_NoStartingMask(long, short, st) ==
    IF long = "None" /\ short = "Rising" /\ st = "Off" THEN "Starting"
    ELSE IF long = "None" /\ short = "Falling" /\ st = "Starting" THEN "On"
    ELSE IF long = "Rising" /\ short = "None" /\ st \in {"On", "Starting"} THEN "Off"
    ELSE st

Dispatch(long, short, st) ==
    IF long = "None" /\ short = "Rising" /\ st = "Off" THEN "Starting"
    ELSE IF long = "None" /\ short = "Falling" /\ st = "Starting" THEN "On"
    ELSE IF long = "Rising" /\ short = "None" /\ st = "On" THEN "Off"
    ELSE st

(* Output operations of the matched arm, in program order. *)
DispatchEffects_DcFirst(old, new) ==
    IF old = "Off" /\ new = "Starting"
    THEN <<Write("led_power", 1), Write("pin_dc_on", 1), Write("pin_sys_reset", 1)>>
    ELSE IF old = "On" /\ new = "Off"
    THEN <<Write("led_power", 0), Write("pin_dc_on", 0), Write("pin_sys_reset", 0),
           SpawnOp("led_power_blink")>>
    ELSE <<>>

DispatchEffects(old, new) ==
    IF old = "Off" /\ new = "Starting"
    THEN <<Write("led_power", 1), Write("pin_dc_on", 1), Write("pin_sys_reset", 1)>>
    ELSE IF old = "On" /\ new = "Off"
    THEN <<Write("led_power", 0), Write("pin_sys_reset", 0), Write("pin_dc_on", 0),
           SpawnOp("led_power_blink")>>
    ELSE <<>>

(* Does the reset-button part of button_poll act in this poll? *)
ResetActs(b, edge, st) ==
    IF b = "pico" THEN edge = "Rising" /\ st = "On"
    ELSE edge = "Falling"

(* Its output operations, in program order. *)
ResetEffects(b) ==
    IF b = "pico"
    THEN <<Write("pin_sys_reset", 0), SpawnOp("exit_reset")>>
    ELSE <<Write("pin_sys_reset", 0), Write("pin_sys_reset", 1)>>

(* The level a pin has after a sequence of output operations. *)
RECURSIVE PinAfter(_, _, _)
PinAfter(pin, level, ops) ==
    IF ops = <<>> THEN level
    ELSE PinAfter(pin, IF Head(ops)[1] = pin THEN Head(ops)[2] ELSE level, Tail(ops))

-----------------------------------------------------------------------------
(* State of the decoder part while the power sequencer is studied, and of  *)
(* the power sequencer while the decoder is studied.                       *)
NoWord == -1

NoByte == -1

Ps2Idle ==
    /\ bit_mask = 1
    /\ collector = 0
    /\ add_bit_result = NoWord
    /\ fed = <<>>
    /\ checked_word = NoWord
    /\ check_result = NoByte

(* The queue is empty and idle has taken nothing from it yet.              *)
KbIdle ==
    /\ kb_q = <<>>
    /\ idle_word = NoWord
    /\ kb_log = <<>>
    /\ sent = <<>>
    /\ cur = <<>>
    /\ emitted = <<>>
    /\ dequeued = <<>>

(* env!("CARGO_PKG_VERSION") is fixed when the firmware is built; the      *)
(* model takes the version "0.1.0".                                        *)
CargoPkgVersion == <<48, 46, 49, 46, 48>>

(* concat!("Neotron BMC ", env!("CARGO_PKG_VERSION")), as bytes.           *)
FirmwareVersion == <<78, 101, 111, 116, 114, 111, 110, 32, 66, 77, 67, 32>> \o CargoPkgVersion

(* SpiPeripheral::new leaves the peripheral disabled with count 0 and no   *)
(* reply; the host holds chip-select high.                                 *)
SpiIdle ==
    /\ spe = FALSE
    /\ count = 0
    /\ reply_byte = NoByte
    /\ tx_fifo = <<>>
    /\ rx_fifo = <<>>
    /\ pin_cs = 1
    /\ exti_pr4 = FALSE
    /\ spi1_pc = "idle"
    /\ spi1_b = NoByte
    /\ firmware_version = FirmwareVersion
    /\ session = 0
    /\ n_exch = 0
    /\ rx_hist = <<>>
    /\ tx_hist = <<>>
    /\ reads = 0
    /\ spi1_sess = 0
    /\ reply_sess = 0
    /\ before_enable = <<0, NoByte>>
    /\ late = FALSE
    /\ last_op = "new"

(* The state init() returns: outputs low, power off, both periodic tasks   *)
(* spawned, debouncers constructed with debounce_N(false).                 *)
PwrInit ==
    /\ state_dc_power_enabled = "Off"
    /\ led_power = 0
    /\ pin_dc_on = 0
    /\ pin_sys_reset = 0
    /\ led_state = FALSE
    /\ press_button_power_short = 0
    /\ press_button_power_long = 0
    /\ press_button_reset = 0
    /\ pwr_short_edge = "None"
    /\ pwr_long_edge = "None"
    /\ rst_long_edge = "None"
    /\ timer = [t \in Tasks |-> IF t = "exit_reset" THEN NotPending ELSE 0]
    /\ panicked = FALSE
    /\ last_task = "init"
    /\ effects = <<Write("pin_sys_reset", 0), Write("pin_dc_on", 0), Write("led_power", 0),
                   SpawnOp("led_power_blink"), SpawnOp("button_poll")>>
    /\ pwr_changes = 0
    /\ rst_changes = 0
    /\ quiet = 0
    /\ held_from = "none"
    /\ first_assert_age = NoAge
    /\ last_assert_age = NoAge
    /\ fired_first_age = NoAge
    /\ fired_last_age = NoAge

(* debounce_N(false): a window of N released samples. *)
DbIdle(mask) ==
    /\ db_mask = mask
    /\ db_state = 0
    /\ db_edge = "None"
    /\ db_sample = FALSE
    /\ db_last_edge = "None"

(* After init only idle runs; nothing is pending. *)
LkIdle ==
    /\ lk_stack = <<[task |-> "idle", pc |-> 1, inside |-> FALSE]>>
    /\ lk_pend = {}

Init ==
    /\ board \in Boards
    /\ PwrInit
    /\ Ps2Idle
    /\ KbIdle
    /\ SpiIdle
    /\ DbIdle(Repeat2Mask)
    /\ LkIdle

-----------------------------------------------------------------------------
(* button_poll, one execution, for the sampled button levels.              *)
ButtonPoll(pwr_pressed, rst_pressed) ==
    /\ ~panicked
    /\ timer["button_poll"] = 0
    /\ LET pwr_last == (press_button_power_long % 2) = 1
           rst_last == (press_button_reset % 2) = 1
           pc == pwr_changes + (IF pwr_pressed # pwr_last THEN 1 ELSE 0)
           rc == rst_changes + (IF rst_pressed # rst_last THEN 1 ELSE 0)
           \* both buttons released and every debounce window already empty
           rest == /\ ~pwr_pressed /\ ~rst_pressed
                   /\ press_button_power_long = 0 /\ press_button_reset = 0
           ps == DebouncerUpdate(press_button_power_short, pwr_pressed, Repeat2Mask)
           pl == DebouncerUpdate(press_button_power_long, pwr_pressed, Repeat16Mask)
           rs == DebouncerUpdate(press_button_reset, rst_pressed, ResetMask(board))
           old == state_dc_power_enabled
           new == Dispatch(pl.edge, ps.edge, old)
           tq0 == [timer EXCEPT !["button_poll"] = NotPending]
           blink == IF old = "On" /\ new = "Off"
                    THEN SpawnAfter(tq0, "led_power_blink", 0)
                    ELSE [ok |-> TRUE, tq |-> tq0]
           \* led_power_blink::spawn().unwrap() on the pico; the nucleo drops the Result
           dies == board = "pico" /\ ~blink.ok
           acts == ~dies /\ ResetActs(board, rs.edge, new)
           arm == IF acts /\ board = "pico"
                  THEN SpawnAfter(blink.tq, "exit_reset", RESET_DURATION_MS)
                  ELSE [ok |-> TRUE, tq |-> blink.tq]
           again == SpawnAfter(arm.tq, "button_poll", DEBOUNCE_POLL_INTERVAL_MS)
           ops == DispatchEffects(old, new)
                  \o (IF acts THEN ResetEffects(board) ELSE <<>>)
                  \o (IF dies THEN <<>> ELSE <<SpawnOp("button_poll")>>)
       IN  /\ pc + rc <= MaxChanges(board)
           \* buttons left alone for more than MaxQuiet polls are not operated again
           /\ quiet > MaxQuiet => rest
           /\ quiet' = IF ~rest THEN 0
                       ELSE IF quiet > MaxQuiet THEN quiet
                       ELSE quiet + 1
           /\ pwr_changes' = pc
           /\ rst_changes' = rc
           /\ press_button_power_short' = ps.state
           /\ press_button_power_long' = pl.state
           /\ press_button_reset' = rs.state
           /\ pwr_short_edge' = ps.edge
           /\ pwr_long_edge' = pl.edge
           /\ rst_long_edge' = rs.edge
           /\ state_dc_power_enabled' = new
           /\ led_power' = PinAfter("led_power", led_power, ops)
           /\ pin_dc_on' = PinAfter("pin_dc_on", pin_dc_on, ops)
           /\ pin_sys_reset' = PinAfter("pin_sys_reset", pin_sys_reset, ops)
           /\ panicked' = (dies \/ ~again.ok)
           /\ timer' = IF dies THEN blink.tq ELSE again.tq
           /\ effects' = ops
           /\ held_from' = IF ~pwr_pressed THEN "none"
                           ELSE IF ~pwr_last THEN old
                           ELSE held_from
           /\ first_assert_age' = IF acts /\ board = "pico" /\ first_assert_age = NoAge
                                  THEN 0 ELSE first_assert_age
           /\ last_assert_age' = IF acts /\ board = "pico" THEN 0 ELSE last_assert_age
    /\ last_task' = "button_poll"
    /\ fired_first_age' = NoAge
    /\ fired_last_age' = NoAge
    /\ UNCHANGED <<board, dbVars, lkVars, led_state, ps2Vars, kbVars, spiVars>>

(* Does led_power_blink toggle the LED and re-arm itself? *)
BlinkActs_Always(st) == TRUE

BlinkActs(st) == st = "Off"

(* led_power_blink, one execution. *)
LedPowerBlink ==
    /\ ~panicked
    /\ timer["led_power_blink"] = 0
    /\ LET tq0 == [timer EXCEPT !["led_power_blink"] = NotPending]
           again == SpawnAfter(tq0, "led_power_blink", LED_PERIOD_MS)
       IN  IF BlinkActs(state_dc_power_enabled)
           THEN /\ led_power' = (IF led_state THEN 0 ELSE 1)
                /\ led_state' = ~led_state
                /\ effects' = <<Write("led_power", IF led_state THEN 0 ELSE 1),
                                SpawnOp("led_power_blink")>>
                /\ timer' = again.tq
                /\ panicked' = ~again.ok
           ELSE /\ timer' = tq0
                /\ effects' = <<>>
                /\ UNCHANGED <<led_power, led_state, panicked>>
    /\ last_task' = "led_power_blink"
    /\ fired_first_age' = NoAge
    /\ fired_last_age' = NoAge
    /\ UNCHANGED <<board, dbVars, lkVars, state_dc_power_enabled, pin_dc_on, pin_sys_reset,
                   debVars, envVars, first_assert_age, last_assert_age, ps2Vars,
                   kbVars, spiVars>>

(* Does exit_reset drive the reset line high? *)
ExitResetReleases_Unguarded(st) == TRUE

ExitResetReleases_WhenOff(st) == st = "Off"

ExitResetReleases(st) == st = "On"

(* exit_reset, one execution (pico only: the nucleo never spawns it). *)
ExitReset ==
    /\ ~panicked
    /\ timer["exit_reset"] = 0
    /\ timer' = [timer EXCEPT !["exit_reset"] = NotPending]
    /\ IF ExitResetReleases(state_dc_power_enabled)
       THEN /\ pin_sys_reset' = 1
            /\ effects' = <<Write("pin_sys_reset", 1)>>
       ELSE /\ pin_sys_reset' = pin_sys_reset
            /\ effects' = <<>>
    /\ last_task' = "exit_reset"
    /\ fired_first_age' = first_assert_age
    /\ fired_last_age' = last_assert_age
    /\ first_assert_age' = NoAge
    /\ last_assert_age' = NoAge
    /\ UNCHANGED <<board, dbVars, lkVars, state_dc_power_enabled, led_power, pin_dc_on, led_state,
                   panicked, debVars, envVars, ps2Vars, kbVars, spiVars>>

(* No task is ready: the processor idles until the next timer expires. *)
Advance ==
    /\ ~panicked
    /\ \A t \in Tasks : timer[t] # 0
    /\ \E t \in Tasks : timer[t] # NotPending
    /\ LET d == Min({timer[t] : t \in {u \in Tasks : timer[u] # NotPending}})
       IN  /\ timer' = [t \in Tasks |-> IF timer[t] = NotPending THEN NotPending
                                        ELSE timer[t] - d]
           /\ first_assert_age' = IF first_assert_age = NoAge THEN NoAge
                                  ELSE first_assert_age + d
           /\ last_assert_age' = IF last_assert_age = NoAge THEN NoAge
                                 ELSE last_assert_age + d
    /\ last_task' = "idle"
    /\ effects' = <<>>
    /\ fired_first_age' = NoAge
    /\ fired_last_age' = NoAge
    /\ UNCHANGED <<board, dbVars, lkVars, state_dc_power_enabled, led_power, pin_dc_on, pin_sys_reset,
                   led_state, panicked, debVars, envVars, ps2Vars, kbVars, spiVars>>

Poll == \E p \in BOOLEAN, r \in BOOLEAN : ButtonPoll(p, r)

Next ==
    \/ Poll
    \/ LedPowerBlink
    \/ ExitReset
    \/ Advance

Spec == Init /\ [][Next]_vars

-----------------------------------------------------------------------------
(* Ps2Decoder.  bit_mask and collector are u16.                            *)
RECURSIVE BitAnd(_, _)
BitAnd(a, b) ==
    IF a = 0 \/ b = 0 THEN 0
    ELSE ((a % 2) * (b % 2)) + 2 * BitAnd(a \div 2, b \div 2)

RECURSIVE BitOr(_, _)
BitOr(a, b) ==
    IF a = 0 THEN b
    ELSE IF b = 0 THEN a
    ELSE (IF (a % 2) + (b % 2) > 0 THEN 1 ELSE 0) + 2 * BitOr(a \div 2, b \div 2)

Shl1_u16(a) == (a * 2) % 65536

RECURSIVE count_ones(_)
count_ones(a) == IF a = 0 THEN 0 ELSE (a % 2) + count_ones(a \div 2)

(* Ps2Decoder::add_bit of the pico: the mask is tested before it is        *)
(* shifted, and reset() puts it back to 1.                                 *)
AddBitPico_TenBits(d, bit) ==
    LET c == IF bit THEN BitOr(d.collector, d.bit_mask) ELSE d.collector
    IN  IF d.bit_mask = 512
        THEN [bit_mask |-> 1, collector |-> 0, result |-> c]
        ELSE [bit_mask |-> Shl1_u16(d.bit_mask), collector |-> c, result |-> NoWord]

AddBitPico(d, bit) ==
    LET c == IF bit THEN BitOr(d.collector, d.bit_mask) ELSE d.collector
    IN  IF d.bit_mask = 1024
        THEN [bit_mask |-> 1, collector |-> 0, result |-> c]
        ELSE [bit_mask |-> Shl1_u16(d.bit_mask), collector |-> c, result |-> NoWord]

(* Ps2Decoder::add_bit of the nucleo: the mask is shifted first and then   *)
(* compared with 0b100000000000 (bit 11), and reset() sets it to 0.        *)
AddBitNucleo(d, bit) ==
    LET c == IF bit THEN BitOr(d.collector, d.bit_mask) ELSE d.collector
        m == Shl1_u16(d.bit_mask)
    IN  IF m = 2048
        THEN [bit_mask |-> 0, collector |-> 0, result |-> c]
        ELSE [bit_mask |-> m, collector |-> c, result |-> NoWord]

add_bit(b, d, bit) == IF b = "pico" THEN AddBitPico(d, bit) ELSE AddBitNucleo(d, bit)

(* Ps2Decoder::check_word, the same function on both boards (the masks are *)
(* written in binary on the pico and in hexadecimal on the nucleo).        *)
CheckWordPico_EvenParity(word) ==
    LET start_bit == BitAnd(word, 1) # 0
        parity_bit == BitAnd(word, 512) # 0
        stop_bit == BitAnd(word, 1024) # 0
        data == BitAnd(word \div 2, 255)
        need_parity == (count_ones(data) % 2) = 1
    IN  IF start_bit THEN NoByte
        ELSE IF ~stop_bit THEN NoByte
        ELSE IF need_parity # parity_bit THEN NoByte
        ELSE data

CheckWordPico(word) ==
    LET start_bit == BitAnd(word, 1) # 0
        parity_bit == BitAnd(word, 512) # 0
        stop_bit == BitAnd(word, 1024) # 0
        data == BitAnd(word \div 2, 255)
        need_parity == (count_ones(data) % 2) = 0
    IN  IF start_bit THEN NoByte
        ELSE IF ~stop_bit THEN NoByte
        ELSE IF need_parity # parity_bit THEN NoByte
        ELSE data

CheckWordNucleo(word) ==
    LET start_bit == BitAnd(word, 1) # 0
        parity_bit == BitAnd(word, 512) # 0
        stop_bit == BitAnd(word, 1024) # 0
        data == BitAnd(word \div 2, 255)
        need_parity == (count_ones(data) % 2) = 0
    IN  IF start_bit THEN NoByte
        ELSE IF ~stop_bit THEN NoByte
        ELSE IF need_parity # parity_bit THEN NoByte
        ELSE data

check_word(b, word) == IF b = "pico" THEN CheckWordPico(word) ELSE CheckWordNucleo(word)

(* One clocked-in bit is given to the decoder. *)
AddBit(bit) ==
    /\ Len(fed) < MaxBits
    /\ LET r == add_bit(board, [bit_mask |-> bit_mask, collector |-> collector], bit)
       IN  /\ bit_mask' = r.bit_mask
           /\ collector' = r.collector
           /\ add_bit_result' = r.result
    /\ fed' = Append(fed, bit)
    /\ UNCHANGED <<board, dbVars, lkVars, pwrVars, kbVars, spiVars, checked_word, check_result>>

(* The word add_bit has just returned is validated. *)
CheckWord ==
    /\ add_bit_result # NoWord
    /\ checked_word # add_bit_result
    /\ checked_word' = add_bit_result
    /\ check_result' = check_word(board, add_bit_result)
    /\ UNCHANGED <<board, dbVars, lkVars, pwrVars, kbVars, spiVars, bit_mask, collector, add_bit_result, fed>>

ClockBit == \E bit \in BOOLEAN : AddBit(bit)

NextDecoder ==
    \/ ClockBit
    \/ CheckWord

SpecDecoder == Init /\ [][NextDecoder]_vars

-----------------------------------------------------------------------------
(* The keyboard path: the clock-edge interrupt (priority 4) gives each bit *)
(* to the decoder and puts every completed word in the queue; idle         *)
(* (priority 0) takes the words out, validates and logs them.  The         *)
(* interrupt runs to completion and may come between any two steps of      *)
(* idle.                                                                   *)

(* heapless::spsc::Queue<u16, 8>: a ring of N = 8 slots with a head and a  *)
(* tail index.  enqueue refuses when advancing the tail would reach the    *)
(* head, so one slot always stays empty and N - 1 words can be pending.    *)
QueueSlots == 8

QueueFull(q) == (Len(q) + 1) % QueueSlots = 0

Enqueue_Overwrite(q, w) ==
    IF QueueFull(q)
    THEN [ok |-> TRUE, q |-> Append(Tail(q), w)]
    ELSE [ok |-> TRUE, q |-> Append(q, w)]

Enqueue(q, w) ==
    IF QueueFull(q)
    THEN [ok |-> FALSE, q |-> q]
    ELSE [ok |-> TRUE, q |-> Append(q, w)]

(* The frames the keyboard sends: 0x12 well formed (odd parity), and 0x1C  *)
(* with the parity bit inverted.                                           *)
Frames == {1572, 1592}

FrameBit(f, n) == ((f \div (2 ^ n)) % 2) = 1

(* Is the bit sequence the beginning of one of the frames? *)
FramePrefix(bits) ==
    \E f \in Frames : \A i \in 1..Len(bits) : bits[i] = FrameBit(f, i - 1)

RECURSIVE SeqValue(_)
SeqValue(bits) ==
    IF bits = <<>> THEN 0
    ELSE (IF Head(bits) THEN 1 ELSE 0) + 2 * SeqValue(Tail(bits))

(* The PS/2 part of the clock-edge interrupt (exti4_15_interrupt with      *)
(* pr15 set on the pico, exti1_interrupt on the nucleo) for one data bit.  *)
ExtiPs2(bit) ==
    /\ ~panicked
    /\ Len(sent) < MaxFrames
    /\ FramePrefix(Append(cur, bit))
    /\ LET r == add_bit(board, [bit_mask |-> bit_mask, collector |-> collector], bit)
           e == IF r.result # NoWord THEN Enqueue(kb_q, r.result)
                ELSE [ok |-> TRUE, q |-> kb_q]
           group == Append(cur, bit)
       IN  /\ bit_mask' = r.bit_mask
           /\ collector' = r.collector
           /\ add_bit_result' = r.result
           /\ emitted' = IF r.result # NoWord THEN Append(emitted, r.result) ELSE emitted
           /\ kb_q' = e.q
           \* kb_q_in.enqueue(data).unwrap()
           /\ panicked' = ~e.ok
           /\ IF Len(group) = 11
              THEN /\ sent' = Append(sent, SeqValue(group))
                   /\ cur' = <<>>
              ELSE /\ sent' = sent
                   /\ cur' = group
    /\ UNCHANGED <<board, dbVars, lkVars, pwrRest, fed, checked_word, check_result,
                   idle_word, kb_log, dequeued, spiVars>>

(* idle: kb_q_out.dequeue() returns a word. *)
IdleDequeue ==
    /\ ~panicked
    /\ idle_word = NoWord
    /\ kb_q # <<>>
    /\ idle_word' = Head(kb_q)
    /\ kb_q' = Tail(kb_q)
    /\ dequeued' = Append(dequeued, Head(kb_q))
    /\ UNCHANGED <<board, dbVars, lkVars, pwrVars, ps2Vars, kb_log, sent, cur, emitted, spiVars>>

(* idle: check_word on the dequeued word, and the log line. *)
IdleCheck ==
    /\ ~panicked
    /\ idle_word # NoWord
    /\ LET byte == check_word(board, idle_word)
       IN  kb_log' = Append(kb_log, IF byte # NoByte THEN <<"KB", byte>>
                                   ELSE <<"Bad KB", idle_word>>)
    /\ idle_word' = NoWord
    /\ UNCHANGED <<board, dbVars, lkVars, pwrVars, ps2Vars, kb_q, sent, cur, emitted, dequeued, spiVars>>

Ps2Clock == \E bit \in BOOLEAN : ExtiPs2(bit)

NextKeyboard ==
    \/ Ps2Clock
    \/ IdleDequeue
    \/ IdleCheck

SpecKeyboard == Init /\ [][NextKeyboard]_vars

-----------------------------------------------------------------------------
(* The bus server of the pico: SpiPeripheral, the chip-select part of the  *)
(* edge interrupt (priority 4) and spi1_interrupt (priority 1).  Each      *)
(* spi.lock(..) section is one step; the edge interrupt and bus exchanges  *)
(* may come between any two of them.                                       *)

(* The bytes the host sends, in (padding, offset) pairs: the padding is    *)
(* 0xFF; the offset is any byte in the first pair of the first session and *)
(* 1 or 0xFF in the other pairs.                                           *)
HostBytes(sess, n) ==
    IF n % 2 = 1 THEN {255}
    ELSE IF sess = 1 /\ n = 2 THEN 0..255
    ELSE {1, 255}

(* The offsets the host holds long sessions about; a session about any     *)
(* other offset has MaxExchangesRare exchanges at most.                    *)
CommonOffsets == {0, 1, 16, 17, 255}

ExchangeBudget(h) ==
    IF Len(h) >= 2 /\ h[2] \notin CommonOffsets THEN MaxExchangesRare ELSE MaxExchanges

(* A first session of padding bytes only, each handled by spi1_interrupt    *)
(* before the next exchange, may go on for MaxLongSession exchanges.       *)
LongSession(b) ==
    /\ session = 1
    /\ ~late
    /\ rx_fifo = <<>>
    /\ spi1_pc = "idle"
    /\ b = 255
    /\ \A i \in 1..Len(rx_hist) : rx_hist[i] = 255
    /\ n_exch < MaxLongSession

(* The host drives chip-select to the other level; the edge is latched. *)
CsEdge ==
    /\ ~panicked
    /\ board = "pico"
    /\ ~exti_pr4
    /\ pin_cs = 1 => session < MaxSessions
    /\ pin_cs' = 1 - pin_cs
    /\ exti_pr4' = TRUE
    /\ last_op' = "cs"
    /\ UNCHANGED <<board, dbVars, lkVars, pwrVars, ps2Vars, kbVars, spe, count, reply_byte, tx_fifo, rx_fifo,
                   spi1_pc, spi1_b, firmware_version, session, n_exch, rx_hist, tx_hist,
                   reads, spi1_sess, reply_sess, before_enable, late>>

(* SpiPeripheral::enable *)
Enable_KeepsReply ==
    /\ spe' = TRUE
    /\ count' = 0
    /\ reply_byte' = reply_byte
    /\ tx_fifo' = Append(tx_fifo, 255)

Enable ==
    /\ spe' = TRUE
    /\ count' = 0
    /\ reply_byte' = NoByte
    /\ tx_fifo' = Append(tx_fifo, 255)

(* SpiPeripheral::disable *)
Disable ==
    /\ spe' = FALSE
    /\ UNCHANGED <<count, reply_byte, tx_fifo>>

(* The chip-select part of exti4_15_interrupt (pr4 set). *)
ExtiCs ==
    /\ ~panicked
    /\ exti_pr4
    /\ IF pin_cs = 0
       THEN /\ Enable
            /\ session' = session + 1
            /\ rx_hist' = <<>>
            /\ tx_hist' = <<>>
            /\ reads' = 0
            /\ before_enable' = <<count, reply_byte>>
            /\ late' = (rx_fifo # <<>> \/ spi1_pc # "idle")
            /\ last_op' = "enable"
       ELSE /\ Disable
            /\ last_op' = "disable"
            /\ UNCHANGED <<session, rx_hist, tx_hist, reads, before_enable, late>>
    /\ exti_pr4' = FALSE
    /\ UNCHANGED <<board, dbVars, lkVars, pwrVars, ps2Vars, kbVars, rx_fifo, pin_cs, spi1_pc, spi1_b,
                   firmware_version, n_exch, spi1_sess, reply_sess>>

(* One byte is exchanged on the bus: the host's byte b goes into the       *)
(* receive FIFO while the oldest byte written to DR is shifted out.        *)
Exchange(b) ==
    /\ ~panicked
    /\ spe
    /\ pin_cs = 0
    /\ ~exti_pr4
    /\ n_exch < ExchangeBudget(rx_hist) \/ LongSession(b)
    /\ n_exch' = n_exch + 1
    /\ rx_fifo' = Append(rx_fifo, b)
    /\ rx_hist' = Append(rx_hist, b)
    /\ IF tx_fifo # <<>>
       THEN /\ tx_hist' = Append(tx_hist, <<"dr", Head(tx_fifo)>>)
            /\ tx_fifo' = Tail(tx_fifo)
       \* nothing was written to DR: the firmware has supplied no byte
       ELSE /\ tx_hist' = Append(tx_hist, <<"underrun", NoByte>>)
            /\ tx_fifo' = tx_fifo
    /\ late' = (late \/ rx_fifo # <<>> \/ spi1_pc # "idle")
    /\ last_op' = "exchange"
    /\ UNCHANGED <<board, dbVars, lkVars, pwrVars, ps2Vars, kbVars, spe, count, reply_byte, pin_cs, exti_pr4,
                   spi1_pc, spi1_b, firmware_version, session, reads, spi1_sess, reply_sess,
                   before_enable>>

BusExchange == \E b \in HostBytes(session, Len(rx_hist) + 1) : Exchange(b)

(* SpiPeripheral::read with a byte in the receive FIFO: which step of      *)
(* spi1_interrupt follows for the new count.                               *)
ReadReturns_EveryOther(cnt) == IF cnt % 2 = 0 THEN "reply" ELSE "idle"

ReadReturns(cnt) == IF cnt = 2 THEN "reply" ELSE "idle"

(* spi1_interrupt: spi.lock(|s| s.read()), entered when the receive FIFO   *)
(* is not empty or from the loop.                                          *)
Spi1Read ==
    /\ ~panicked
    /\ ~exti_pr4
    /\ \/ spi1_pc = "read"
       \/ spi1_pc = "idle" /\ rx_fifo # <<>>
    /\ IF rx_fifo # <<>>
       THEN /\ rx_fifo' = Tail(rx_fifo)
            /\ IF reply_byte # NoByte
               THEN /\ tx_fifo' = tx_fifo \o <<reply_byte, 255>>
                    /\ reply_byte' = NoByte
               ELSE UNCHANGED <<tx_fifo, reply_byte>>
            \* self.count += 1 on a u8
            /\ \/ /\ count' = (count + 1) % 256
                  /\ panicked' = FALSE
                  /\ reads' = reads + 1
                  /\ spi1_pc' = ReadReturns(count')
                  /\ IF ReadReturns(count') = "reply"
                     THEN /\ spi1_b' = Head(rx_fifo)
                          /\ spi1_sess' = session
                     \* None: the handler returns and its locals are gone
                     ELSE /\ spi1_b' = NoByte
                          /\ spi1_sess' = 0
               \* 255 + 1 overflows: with overflow checks built in the
               \* addition panics, without them it wraps to 0 (above)
               \/ /\ count = 255
                  /\ panicked' = TRUE
                  /\ spi1_pc' = "idle"
                  /\ spi1_b' = NoByte
                  /\ spi1_sess' = 0
                  /\ UNCHANGED <<count, reads>>
       ELSE /\ spi1_pc' = "idle"
            /\ spi1_b' = NoByte
            /\ spi1_sess' = 0
            /\ UNCHANGED <<rx_fifo, tx_fifo, reply_byte, count, reads, panicked>>
    /\ last_op' = "read"
    /\ UNCHANGED <<board, dbVars, lkVars, pwrRest, ps2Vars, kbVars, spe, pin_cs, exti_pr4, firmware_version,
                   session, n_exch, rx_hist, tx_hist, reply_sess, before_enable, late>>

(* The match of spi1_interrupt: the byte of firmware_version at the        *)
(* offset, or 0xFF.                                                        *)
RegisterRead_OffByOne(fw, offset) ==
    IF offset + 1 < Len(fw) THEN fw[offset + 2] ELSE 255

RegisterRead(fw, offset) ==
    IF offset < Len(fw) THEN fw[offset + 1] ELSE 255

(* spi1_interrupt: spi.lock(|s| s.reply(..)) for the offset read() gave. *)
Spi1Reply ==
    /\ ~panicked
    /\ ~exti_pr4
    /\ spi1_pc = "reply"
    /\ reply_byte' = RegisterRead(firmware_version, spi1_b)
    /\ reply_sess' = spi1_sess
    /\ spi1_pc' = "read"
    /\ last_op' = "reply"
    /\ UNCHANGED <<board, dbVars, lkVars, pwrVars, ps2Vars, kbVars, spe, count, tx_fifo, rx_fifo, pin_cs,
                   exti_pr4, spi1_b, firmware_version, session, n_exch, rx_hist, tx_hist,
                   reads, spi1_sess, before_enable, late>>

NextSpi ==
    \/ CsEdge
    \/ ExtiCs
    \/ BusExchange
    \/ Spi1Read
    \/ Spi1Reply

SpecSpi == Init /\ [][NextSpi]_vars

-----------------------------------------------------------------------------
(* One debouncr window fed an arbitrary sample stream.                     *)

(* The windows the firmware builds: debounce_2 and debounce_16.            *)
DebouncerMasks == {Repeat2Mask, Repeat16Mask}

InitDebounce ==
    /\ board = "pico"
    /\ PwrInit
    /\ Ps2Idle
    /\ KbIdle
    /\ SpiIdle
    /\ \E mask \in DebouncerMasks : DbIdle(mask)
    /\ LkIdle

(* Debouncer::update(pressed) *)
DbUpdate(pressed) ==
    LET u == DebouncerUpdate(db_state, pressed, db_mask)
    IN  /\ db_state' = u.state
        /\ db_edge' = u.edge
        /\ db_sample' = pressed
        /\ db_last_edge' = (IF db_edge # "None" THEN db_edge ELSE db_last_edge)
        /\ UNCHANGED <<board, pwrVars, ps2Vars, kbVars, spiVars, db_mask, lkVars>>

DbSample == \E pressed \in BOOLEAN : DbUpdate(pressed)

NextDebounce == DbSample

SpecDebounce == InitDebounce /\ [][NextDebounce]_vars

-----------------------------------------------------------------------------
(* The pico's tasks under the RTIC scheduler: priorities, shared resources *)
(* and locks.                                                              *)

AppTasks == {"idle", "exti4_15_interrupt", "usart1_interrupt", "spi1_interrupt",
             "led_power_blink", "button_poll", "exit_reset"}

(* #[task(priority = ..)]; the default is 1, idle runs at 0. *)
Priority(t) ==
    IF t = "idle" THEN 0
    ELSE IF t = "exti4_15_interrupt" THEN 4
    ELSE 1

(* The fields of Shared marked #[lock_free] that a task uses. *)
LockFree == {"led_power", "serial", "button_power", "button_reset",
             "state_dc_power_enabled", "pin_dc_on", "pin_sys_reset", "ps2_clk0",
             "ps2_dat0", "exti", "register_state", "kb_q_out"}

(* shared = [..] of each task. *)
SharedOf(t) ==
    IF t = "idle" THEN {"kb_q_out"}
    ELSE IF t = "exti4_15_interrupt" THEN {"ps2_clk0", "ps2_dat0", "exti", "spi", "pin_cs"}
    ELSE IF t = "usart1_interrupt" THEN {"serial"}
    ELSE IF t = "spi1_interrupt" THEN {"spi", "register_state"}
    ELSE IF t = "led_power_blink" THEN {"led_power", "state_dc_power_enabled"}
    ELSE IF t = "button_poll" THEN {"led_power", "button_power", "button_reset",
                                    "state_dc_power_enabled", "pin_sys_reset", "pin_dc_on"}
    ELSE {"pin_sys_reset", "state_dc_power_enabled"}

(* One access of a task's body: the resource and whether through lock(). *)
Acc(r, l) == [res |-> r, lock |-> l]

(* The accesses of each task's body, in the order of the code. *)
Body(t) ==
    IF t = "idle" THEN <<Acc("kb_q_out", FALSE)>>
    ELSE IF t = "exti4_15_interrupt"
    THEN <<Acc("exti", FALSE), Acc("ps2_dat0", FALSE), Acc("exti", FALSE),
           Acc("pin_cs", TRUE), Acc("spi", TRUE), Acc("exti", FALSE)>>
    ELSE IF t = "usart1_interrupt" THEN <<Acc("serial", FALSE)>>
    ELSE IF t = "spi1_interrupt"
    THEN <<Acc("spi", TRUE), Acc("register_state", FALSE), Acc("spi", TRUE)>>
    ELSE IF t = "led_power_blink"
    THEN <<Acc("state_dc_power_enabled", FALSE), Acc("led_power", FALSE)>>
    ELSE IF t = "button_poll"
    THEN <<Acc("button_power", FALSE), Acc("button_reset", FALSE),
           Acc("state_dc_power_enabled", FALSE), Acc("led_power", FALSE),
           Acc("pin_dc_on", FALSE), Acc("pin_sys_reset", FALSE)>>
    ELSE <<Acc("state_dc_power_enabled", FALSE), Acc("pin_sys_reset", FALSE)>>

MaxOf(S) == CHOOSE x \in S : \A y \in S : y <= x

(* The ceiling of a resource: the highest priority of the tasks sharing it. *)
Ceiling_None(r) == 0

Ceiling(r) == MaxOf({Priority(t) : t \in {u \in AppTasks : r \in SharedOf(u)}})

(* The priority a frame runs at: its task's, raised to the ceiling inside  *)
(* a lock().                                                               *)
FramePriority(f) ==
    IF f.inside /\ Body(f.task)[f.pc].lock
    THEN MaxOf({Priority(f.task), Ceiling(Body(f.task)[f.pc].res)})
    ELSE Priority(f.task)

LkTop == lk_stack[Len(lk_stack)]

LkPop == SubSeq(lk_stack, 1, Len(lk_stack) - 1)

(* An interrupt request or a timer expiry makes a task pending. *)
LkPend(t) ==
    /\ t # "idle"
    /\ t \notin lk_pend
    /\ lk_pend' = lk_pend \cup {t}
    /\ UNCHANGED <<board, pwrVars, ps2Vars, kbVars, spiVars, dbVars, lk_stack>>

(* A pending task of a priority above the running one's starts. *)
LkStart(t) ==
    /\ t \in lk_pend
    /\ Priority(t) > FramePriority(LkTop)
    /\ lk_pend' = lk_pend \ {t}
    /\ lk_stack' = Append(lk_stack, [task |-> t, pc |-> 1, inside |-> FALSE])
    /\ UNCHANGED <<board, pwrVars, ps2Vars, kbVars, spiVars, dbVars>>

(* The running task enters its next access. *)
LkEnter ==
    /\ ~LkTop.inside
    /\ LkTop.pc <= Len(Body(LkTop.task))
    /\ lk_stack' = Append(LkPop, [LkTop EXCEPT !.inside = TRUE])
    /\ UNCHANGED <<board, pwrVars, ps2Vars, kbVars, spiVars, dbVars, lk_pend>>

(* The running task leaves the access; idle loops. *)
LkLeave ==
    /\ LkTop.inside
    /\ lk_stack' = Append(LkPop,
          [LkTop EXCEPT !.inside = FALSE,
                        !.pc = IF LkTop.task = "idle" THEN 1 ELSE LkTop.pc + 1])
    /\ UNCHANGED <<board, pwrVars, ps2Vars, kbVars, spiVars, dbVars, lk_pend>>

(* The running task returns. *)
LkReturn ==
    /\ LkTop.task # "idle"
    /\ LkTop.pc > Len(Body(LkTop.task))
    /\ lk_stack' = LkPop
    /\ UNCHANGED <<board, pwrVars, ps2Vars, kbVars, spiVars, dbVars, lk_pend>>

LkRequest == \E t \in AppTasks : LkPend(t)

LkDispatch == \E t \in AppTasks : LkStart(t)

NextLocks ==
    \/ LkRequest
    \/ LkDispatch
    \/ LkEnter
    \/ LkLeave
    \/ LkReturn

InitLocks ==
    /\ board = "pico"
    /\ PwrInit
    /\ Ps2Idle
    /\ KbIdle
    /\ SpiIdle
    /\ DbIdle(Repeat2Mask)
    /\ LkIdle

SpecLocks == InitLocks /\ [][NextLocks]_vars

-----------------------------------------------------------------------------
(* Reference reading of an 11-bit frame, by division rather than masks.    *)
BitOf(w, n) == (w \div (2 ^ n)) % 2

RECURSIVE OnesBetween(_, _, _)
OnesBetween(w, lo, hi) ==
    IF lo > hi THEN 0 ELSE BitOf(w, lo) + OnesBetween(w, lo + 1, hi)

RECURSIVE BitsValue(_)
BitsValue(bits) ==
    IF bits = <<>> THEN 0
    ELSE (IF Head(bits) THEN 1 ELSE 0) + 2 * BitsValue(Tail(bits))

(* C9: check_word returns the data byte (bits 1..8) exactly when the start *)
(* bit (bit 0) is 0, the stop bit (bit 10) is 1 and the number of one-bits *)
(* among bits 1..9 is odd, and None for every other 11-bit word, on both   *)
(* boards.                                                                 *)
C9_CheckWord ==
    checked_word # NoWord =>
        /\ checked_word \in 0..2047
        /\ check_result =
              IF /\ BitOf(checked_word, 0) = 0
                 /\ BitOf(checked_word, 10) = 1
                 /\ OnesBetween(checked_word, 1, 9) % 2 = 1
              THEN (checked_word \div 2) % 256
              ELSE NoByte

C9_Witness ==
    /\ board = "nucleo"
    /\ checked_word = 1024 + 512 + 2 * 255
    /\ check_result = 255

(* C10: on a freshly constructed decoder add_bit returns None for each of  *)
(* the first 10 bits and on the 11th returns the word whose bit N is the   *)
(* N-th bit given (N = 0..10), a value below 2^11, on both boards.         *)
C10_FirstWord ==
    /\ Len(fed) \in 1..10 => add_bit_result = NoWord
    /\ Len(fed) = 11 =>
          /\ add_bit_result = BitsValue(fed)
          /\ \A n \in 0..10 : BitOf(add_bit_result, n) = (IF fed[n + 1] THEN 1 ELSE 0)
          /\ add_bit_result \in 0..2047

C10_Witness ==
    /\ board = "nucleo"
    /\ Len(fed) = 11
    /\ add_bit_result = 1365

-----------------------------------------------------------------------------
(* The power sequencer.                                                    *)

(* The number of consecutive pressed samples at the end of a 16-sample     *)
(* window (16 stands for 16 or more).                                      *)
RECURSIVE TrailingOnes(_)
TrailingOnes(r) == IF r % 2 = 1 THEN 1 + TrailingOnes(r \div 2) ELSE 0

PollRearm == <<"spawn", "button_poll">>

(* C1: the power state changes only in button_poll and only by             *)
(* Off->Starting (short Rising, no long edge), Starting->On (short         *)
(* Falling, no long edge) and On->Off (long Rising, no short edge).        *)
C1_Transitions ==
    [][state_dc_power_enabled' # state_dc_power_enabled =>
          /\ last_task' = "button_poll"
          /\ \/ /\ state_dc_power_enabled = "Off"
                /\ state_dc_power_enabled' = "Starting"
                /\ pwr_short_edge' = "Rising"
                /\ pwr_long_edge' = "None"
             \/ /\ state_dc_power_enabled = "Starting"
                /\ state_dc_power_enabled' = "On"
                /\ pwr_short_edge' = "Falling"
                /\ pwr_long_edge' = "None"
             \/ /\ state_dc_power_enabled = "On"
                /\ state_dc_power_enabled' = "Off"
                /\ pwr_long_edge' = "Rising"
                /\ pwr_short_edge' = "None"]_vars

(* All three transitions have been taken: the long press has just turned   *)
(* the nucleo off again.                                                   *)
C1_Witness ==
    /\ board = "nucleo"
    /\ last_task = "button_poll"
    /\ state_dc_power_enabled = "Off"
    /\ pwr_long_edge = "Rising"

(* C2: whenever the power state is Off, DC-enable is low and the reset     *)
(* line is low, on both boards.                                            *)
C2_OffHoldsReset ==
    state_dc_power_enabled = "Off" => (pin_dc_on = 0 /\ pin_sys_reset = 0)

(* C3: whenever the power state is On, DC-enable is high, and the reset    *)
(* line is high unless a reset-button assertion is outstanding whose       *)
(* release task has not run yet.                                           *)
C3_OnOutputs ==
    state_dc_power_enabled = "On" =>
        /\ pin_dc_on = 1
        /\ \/ pin_sys_reset = 1
           \/ /\ first_assert_age # NoAge
              /\ timer["exit_reset"] # NotPending

C3_Witness ==
    /\ state_dc_power_enabled = "On"
    /\ pin_dc_on = 1
    /\ pin_sys_reset = 0
    /\ first_assert_age = 150
    /\ timer["exit_reset"] = 100

(* The levels of reset and DC-enable after each prefix of a sequence of    *)
(* output operations never have reset released with DC-enable low.         *)
ResetNeverAheadOfDc(rst, dc, ops) ==
    \A k \in 0..Len(ops) :
        ~ /\ PinAfter("pin_sys_reset", rst, SubSeq(ops, 1, k)) = 1
          /\ PinAfter("pin_dc_on", dc, SubSeq(ops, 1, k)) = 0

(* C4: in a run in which only the power button is operated, the poll that  *)
(* takes Off->Starting performs LED on, DC-enable high, reset released, in *)
(* that order; the poll that takes Starting->On performs no output; the    *)
(* poll that takes On->Off performs LED off, reset low, DC-enable low,     *)
(* blink task spawned, in that order (each followed only by the poll's own *)
(* re-arm); and at no point of any poll is reset released while DC-enable  *)
(* is low.                                                                 *)
C4_OutputOrder ==
    [][(last_task' = "button_poll" /\ rst_changes' = 0) =>
          /\ (state_dc_power_enabled = "Off" /\ state_dc_power_enabled' = "Starting")
                => effects' = <<<<"led_power", 1>>, <<"pin_dc_on", 1>>,
                                <<"pin_sys_reset", 1>>, PollRearm>>
          /\ (state_dc_power_enabled = "Starting" /\ state_dc_power_enabled' = "On")
                => effects' = <<PollRearm>>
          /\ (state_dc_power_enabled = "On" /\ state_dc_power_enabled' = "Off")
                => effects' = <<<<"led_power", 0>>, <<"pin_sys_reset", 0>>,
                                <<"pin_dc_on", 0>>, <<"spawn", "led_power_blink">>,
                                PollRearm>>
          /\ state_dc_power_enabled' = state_dc_power_enabled
                => effects' = <<PollRearm>>
          /\ ResetNeverAheadOfDc(pin_sys_reset, pin_dc_on, effects')]_vars

(* The whole sequence short press, release, long press has run on the      *)
(* nucleo with the reset button untouched.                                 *)
C4_Witness ==
    /\ board = "nucleo"
    /\ rst_changes = 0
    /\ last_task = "button_poll"
    /\ state_dc_power_enabled = "Off"
    /\ pwr_long_edge = "Rising"
    /\ Len(effects) = 5

(* C5: during one uninterrupted press of the power button that began while *)
(* the state was Off, the state is Off after the first pressed sample and  *)
(* Starting after every later one, however long the press lasts; and On is *)
(* entered only by a poll after which the last two samples are released.   *)
C5_HeldPress ==
    /\ [](held_from = "Off" =>
             /\ TrailingOnes(press_button_power_long) = 1
                   => state_dc_power_enabled = "Off"
             /\ TrailingOnes(press_button_power_long) >= 2
                   => state_dc_power_enabled = "Starting")
    /\ [][(state_dc_power_enabled' = "On" /\ state_dc_power_enabled # "On") =>
             /\ state_dc_power_enabled = "Starting"
             /\ press_button_power_long' % 4 = 0]_vars

(* The button has been held for more than 16 polls since Off. *)
C5_Witness ==
    /\ board = "nucleo"
    /\ held_from = "Off"
    /\ press_button_power_long = Repeat16Mask
    /\ pwr_long_edge = "None"
    /\ last_task = "button_poll"
    /\ state_dc_power_enabled = "Starting"

(* C6: exit_reset drives the reset line high only if the power state is On *)
(* when it executes; if the power has been turned off since the assertion  *)
(* the line is still low after exit_reset has run.                         *)
C6_ReleaseOnlyWhenOn ==
    [][last_task' = "exit_reset" =>
          IF state_dc_power_enabled = "On"
          THEN pin_sys_reset' = 1
          ELSE /\ pin_sys_reset' = pin_sys_reset
               /\ state_dc_power_enabled = "Off" => pin_sys_reset' = 0]_vars

(* The release task of an assertion made while On has run after power-off. *)
C6_Witness ==
    /\ last_task = "exit_reset"
    /\ fired_first_age = RESET_DURATION_MS
    /\ state_dc_power_enabled = "Off"
    /\ pin_sys_reset = 0

C8_ResetOnlyWhenOn ==
    [][(/\ last_task' = "button_poll"
        /\ state_dc_power_enabled \in {"Off", "Starting"}
        /\ state_dc_power_enabled' = state_dc_power_enabled) =>
          /\ effects' = <<PollRearm>>
          /\ pin_sys_reset' = pin_sys_reset
          /\ timer'["exit_reset"] = timer["exit_reset"]]_vars

(* C20: at every moment exactly one button_poll instance is pending, due   *)
(* within 75 ms; every execution re-arms itself exactly once, 75 ms ahead, *)
(* and the re-arm succeeds; the firmware never panics on a failed spawn;   *)
(* this in every power state, on both boards.                              *)
C20_PollAlwaysArmed ==
    /\ [](/\ ~panicked
          /\ timer["button_poll"] \in 0..DEBOUNCE_POLL_INTERVAL_MS)
    /\ [][last_task' = "button_poll" =>
             /\ timer["button_poll"] = 0
             /\ timer'["button_poll"] = DEBOUNCE_POLL_INTERVAL_MS
             /\ Cardinality({i \in 1..Len(effects') : effects'[i] = PollRearm}) = 1
             /\ effects'[Len(effects')] = PollRearm]_vars

(* The pico has been switched on and off again: the poll that powered it   *)
(* off has spawned the blink task and re-armed itself.                     *)
C20_Witness ==
    /\ board = "pico"
    /\ last_task = "button_poll"
    /\ state_dc_power_enabled = "Off"
    /\ pwr_long_edge = "Rising"
    /\ timer["led_power_blink"] = 0
    /\ timer["button_poll"] = DEBOUNCE_POLL_INTERVAL_MS

(* C21: while the state is Off a blink instance is always pending, due     *)
(* within 1000 ms; an execution in Off re-arms itself 1000 ms ahead and    *)
(* changes the level of the power LED; an execution in Starting or On      *)
(* leaves the LED alone and schedules nothing.                             *)
C21_BlinkWhileOff ==
    /\ [](state_dc_power_enabled = "Off" =>
             timer["led_power_blink"] \in 0..LED_PERIOD_MS)
    /\ [][last_task' = "led_power_blink" =>
             IF state_dc_power_enabled = "Off"
             THEN /\ timer'["led_power_blink"] = LED_PERIOD_MS
                  /\ led_power' # led_power
             ELSE /\ timer'["led_power_blink"] = NotPending
                  /\ led_power' = led_power]_vars

(* C24: a poll in which the reset button asserts the reset line (outside   *)
(* the power-off transition) is one at which the reset button's window     *)
(* holds 16 consecutive pressed samples, on both boards.                   *)
C24_ResetNeedsLongPress ==
    [][(/\ last_task' = "button_poll"
        /\ ~(state_dc_power_enabled = "On" /\ state_dc_power_enabled' = "Off")
        /\ \E i \in 1..Len(effects') : effects'[i] = <<"pin_sys_reset", 0>>) =>
          /\ rst_long_edge' = "Rising"
          /\ press_button_reset' = Repeat16Mask]_vars

(* C27: the poll that takes On->Off finds no blink instance pending, its   *)
(* spawn succeeds and the blink task runs next; the firmware does not      *)
(* panic.                                                                  *)
C27_BlinkRearmSucceeds ==
    [][(state_dc_power_enabled = "On" /\ state_dc_power_enabled' = "Off") =>
          /\ timer["led_power_blink"] = NotPending
          /\ timer'["led_power_blink"] = 0
          /\ ~panicked']_vars

(* The nucleo is switched off as early as the debouncers allow after the   *)
(* boot: 2 polls pressed, 2 released, 16 pressed.                          *)
C27_Witness ==
    /\ board = "nucleo"
    /\ last_task = "button_poll"
    /\ state_dc_power_enabled = "Off"
    /\ effects = <<<<"led_power", 0>>, <<"pin_sys_reset", 0>>, <<"pin_dc_on", 0>>,
                   <<"spawn", "led_power_blink">>, PollRearm>>
    /\ pwr_changes = 3
    /\ led_state

(* C28: the 2-sample and the 16-sample debouncer of the power button never *)
(* both report an edge in the same poll; so whenever the primary edge of a *)
(* transition occurs in its state, the transition is taken.                *)
C28_OneEdgePerPoll ==
    /\ [](pwr_short_edge = "None" \/ pwr_long_edge = "None")
    /\ [][last_task' = "button_poll" =>
             /\ (state_dc_power_enabled = "Off" /\ pwr_short_edge' = "Rising")
                   => state_dc_power_enabled' = "Starting"
             /\ (state_dc_power_enabled = "Starting" /\ pwr_short_edge' = "Falling")
                   => state_dc_power_enabled' = "On"
             /\ (state_dc_power_enabled = "On" /\ pwr_long_edge' = "Rising")
                   => state_dc_power_enabled' = "Off"]_vars

(* The 16-sample window reports the release of a press long after the      *)
(* 2-sample window has.                                                    *)
C28_Witness ==
    /\ last_task = "button_poll"
    /\ pwr_long_edge = "Falling"
    /\ pwr_short_edge = "None"
    /\ press_button_power_short = 0

(* C29: in On the 16-sample window of the power button is never all        *)
(* pressed after a poll: the poll that brings the 16th consecutive pressed *)
(* sample takes the state to Off.                                          *)
C29_LongPressPowersOff ==
    /\ [](state_dc_power_enabled = "On" => press_button_power_long # Repeat16Mask)
    /\ [][(/\ last_task' = "button_poll"
           /\ state_dc_power_enabled = "On"
           /\ press_button_power_long' = Repeat16Mask) =>
             state_dc_power_enabled' = "Off"]_vars

(* The pico is switched off by a long press that began in On. *)
C29_Witness ==
    /\ board = "pico"
    /\ last_task = "button_poll"
    /\ held_from = "On"
    /\ press_button_power_long = Repeat16Mask
    /\ state_dc_power_enabled = "Off"

(* C30: whenever the state is Starting or On the power LED is high.        *)
C30_LedOnWhenPowered ==
    state_dc_power_enabled \in {"Starting", "On"} => led_power = 1

(* A blink instance scheduled while Off has run after power-on, with the   *)
(* LED high.                                                               *)
C30_Witness ==
    /\ last_task = "led_power_blink"
    /\ state_dc_power_enabled = "Starting"
    /\ led_power = 1
    /\ timer["led_power_blink"] = NotPending

-----------------------------------------------------------------------------
(* The keyboard path.                                                      *)

(* What idle is to log for a sequence of 11-bit groups, by the reference   *)
(* reading of a frame.                                                     *)
RECURSIVE ExpectedLog(_)
ExpectedLog(groups) ==
    IF groups = <<>> THEN <<>>
    ELSE LET w == Head(groups)
             ok == /\ BitOf(w, 0) = 0
                   /\ BitOf(w, 10) = 1
                   /\ OnesBetween(w, 1, 9) % 2 = 1
         IN  <<IF ok THEN <<"KB", (w \div 2) % 256>> ELSE <<"Bad KB", w>>>>
             \o ExpectedLog(Tail(groups))

(* The words that have left the decoder and have not been logged yet.      *)
PendingWords == Len(kb_q) + (IF idle_word # NoWord THEN 1 ELSE 0)

(* C11: on both boards, after every 11th bit the decoder is back in its    *)
(* initial state (bit_mask = 1, collector = 0), add_bit has emitted a word *)
(* exactly on calls 11, 22, 33, ..., and the k-th emitted word is the k-th *)
(* group of 11 bits.                                                       *)
C11_GroupsOfEleven ==
    /\ emitted = sent
    /\ cur = <<>> => (bit_mask = 1 /\ collector = 0)

(* C12: on both boards, as long as the queue has not overflowed, what idle *)
(* has logged is the expected log of the frames that arrived first, in     *)
(* arrival order (the data byte of each well-formed frame, "bad" for each  *)
(* malformed one), and every other frame that has arrived is still waiting *)
(* in the queue or in idle.                                                *)
C12_EndToEnd ==
    ~panicked =>
        /\ Len(kb_log) <= Len(sent)
        /\ kb_log = ExpectedLog(SubSeq(sent, 1, Len(kb_log)))
        /\ Len(kb_log) + PendingWords = Len(sent)

(* C13: the queue returns the words in the order they were put in, and an  *)
(* enqueue is rejected only when 8 words are pending: 8 enqueues without a *)
(* dequeue succeed and the 9th is rejected.                                *)
C13_QueueHoldsEight ==
    /\ Len(kb_q) <= 8
    /\ dequeued \o kb_q = SubSeq(emitted, 1, Len(dequeued) + Len(kb_q))
    /\ panicked => Len(kb_q) = 8

(* C14: every word the decoder has emitted has been dequeued or is in the  *)
(* queue, in order, none overwritten; the only exception is the word whose *)
(* enqueue found the queue full, and then the firmware has panicked.       *)
C14_NoSilentLoss ==
    /\ ~panicked => emitted = dequeued \o kb_q
    /\ panicked => /\ QueueFull(kb_q)
                   /\ emitted = Append(dequeued \o kb_q, add_bit_result)

(* The pico's queue is full and one more word has arrived. *)
C14_Witness ==
    /\ board = "pico"
    /\ panicked
    /\ Len(emitted) = Len(dequeued) + Len(kb_q) + 1
    /\ Len(dequeued) = 1

-----------------------------------------------------------------------------
(* The bus server.                                                         *)

(* C15: the chip-select handler's processing of a falling edge leaves the  *)
(* server enabled with count = 0 and no pending reply, and has written the *)
(* filler 0xFF to the transmit register, whatever count and the pending    *)
(* reply were before.                                                      *)
C15_EnableResets ==
    [][last_op' = "enable" =>
          /\ spe'
          /\ count' = 0
          /\ reply_byte' = NoByte
          /\ tx_fifo' = Append(tx_fifo, 255)]_vars

(* The second session begins; the first one ended with count = 2 and the   *)
(* reply 'N' pending.                                                      *)
C15_Witness ==
    /\ last_op = "enable"
    /\ session = 2
    /\ before_enable = <<2, 78>>
    /\ count = 0
    /\ reply_byte = NoByte

(* C16: the reply selected for an offset is the byte of the identity       *)
(* string at that offset when the offset is below the string's length, and *)
(* 0xFF otherwise, for every offset 0..255; the identity string is never   *)
(* modified.                                                               *)
C16_RegisterRead ==
    /\ firmware_version = FirmwareVersion
    /\ last_op = "reply" =>
          /\ spi1_b \in 0..255
          /\ \/ /\ spi1_b >= Len(FirmwareVersion)
                /\ reply_byte = 255
             \/ \E i \in 1..Len(FirmwareVersion) :
                   /\ i = spi1_b + 1
                   /\ reply_byte = FirmwareVersion[i]

(* The last byte of the string, '0' of "0.1.0" at offset 16, is selected. *)
C16_Witness ==
    /\ last_op = "reply"
    /\ spi1_b = 16
    /\ reply_byte = 48

(* Every exchange of this session took place after spi1_interrupt had      *)
(* handled all the bytes before it, and the latest has just taken place.   *)
HandledPromptly ==
    /\ last_op = "exchange"
    /\ ~late

(* C17: in the first session, with every byte handled before the next      *)
(* exchange, the third exchange transmits the reply looked up for the      *)
(* offset (the second byte), and the fourth transmits the filler 0xFF.     *)
C17_ReplyOnThirdExchange ==
    (session = 1 /\ HandledPromptly) =>
        /\ Len(tx_hist) = 3 =>
              tx_hist[3] = <<"dr", RegisterRead(FirmwareVersion, rx_hist[2])>>
        /\ Len(tx_hist) = 4 => tx_hist[4] = <<"dr", 255>>

(* C18: in one session in which the host has sent [pad, 0], [pad, 1] and   *)
(* two more bytes, each handled before the next exchange, the byte at      *)
(* offset 0 was transmitted on the 3rd or 4th exchange and the byte at     *)
(* offset 1 on the 5th or 6th.                                             *)
C18_TwoReadsInOneSession ==
    (/\ HandledPromptly
     /\ Len(rx_hist) = 6
     /\ rx_hist[2] = 0
     /\ rx_hist[4] = 1) =>
        /\ \E i \in {3, 4} : tx_hist[i] = <<"dr", FirmwareVersion[1]>>
        /\ \E i \in {5, 6} : tx_hist[i] = <<"dr", FirmwareVersion[2]>>

(* C19: a pending reply answers an offset read in the current session, and *)
(* from enable() until read() has taken a byte the pending reply is absent *)
(* and count is 0, under every interleaving of the two handlers.           *)
C19_NoReplyAcrossSessions ==
    /\ reply_byte # NoByte => reply_sess = session
    /\ (spe /\ reads = 0) => (reply_byte = NoByte /\ count = 0)

(* C25: when every byte of the session was handled before the next         *)
(* exchange, every exchange of the session has shifted out a byte the      *)
(* firmware had written to the transmit register: the filler 0xFF or the   *)
(* reply looked up for the session's offset.                               *)
C25_NoUnderrun ==
    ~late =>
        \A i \in 1..Len(tx_hist) :
            /\ tx_hist[i][1] = "dr"
            /\ tx_hist[i][2] = 255 \/
                  (Len(rx_hist) >= 2 /\
                   tx_hist[i][2] = RegisterRead(FirmwareVersion, rx_hist[2]))

(* C26: read() hands a byte to the register lookup only when it is the     *)
(* second byte read in the session, and the count never overflows: the     *)
(* firmware does not panic in read().                                      *)
C26_OnlySecondByteIsOffset ==
    /\ ~panicked
    /\ spi1_pc = "reply" => reads = 2

-----------------------------------------------------------------------------
(* The debouncer and the scheduler.                                        *)

(* C23: a sample equal to the value the window is confirmed to reports no  *)
(* edge and leaves the window alone; and every edge reported differs from  *)
(* the edge reported before it, the first being Rising (the window starts  *)
(* confirmed released).                                                    *)
C23_EdgesAlternate ==
    [][/\ ((db_state = db_mask /\ db_sample') \/ (db_state = 0 /\ ~db_sample')) =>
             (db_edge' = "None" /\ db_state' = db_state)
       /\ db_edge' # "None" =>
             db_edge' # (IF db_edge # "None" THEN db_edge
                         ELSE IF db_last_edge # "None" THEN db_last_edge
                         ELSE "Falling")]_vars

(* The frames of the stack that are inside an access of resource r. *)
InsideOf(r) ==
    {i \in 1..Len(lk_stack) :
        lk_stack[i].inside /\ Body(lk_stack[i].task)[lk_stack[i].pc].res = r}

(* C22: no two tasks are inside an access of one resource; while           *)
(* spi1_interrupt is inside an access of spi, which it makes through        *)
(* lock() only, exti4_15_interrupt is not running; every lock-free          *)
(* resource is shared by tasks of one priority; every task on the stack    *)
(* has a priority above that of the task it preempted.                     *)
C22_ExclusiveAccess ==
    /\ \A r \in LockFree \cup {"spi", "pin_cs"} : Cardinality(InsideOf(r)) <= 1
    /\ \A i \in 1..Len(Body("spi1_interrupt")) :
          Body("spi1_interrupt")[i].res = "spi" => Body("spi1_interrupt")[i].lock
    /\ \A i \in InsideOf("spi") :
          lk_stack[i].task = "spi1_interrupt" =>
             \A j \in 1..Len(lk_stack) : lk_stack[j].task # "exti4_15_interrupt"
    /\ \A r \in LockFree : \A t, u \in AppTasks :
          (r \in SharedOf(t) /\ r \in SharedOf(u)) => Priority(t) = Priority(u)
    /\ \A i \in 1..(Len(lk_stack) - 1) :
          Priority(lk_stack[i + 1].task) > Priority(lk_stack[i].task)

(* spi1_interrupt is inside its lock on spi with the chip-select interrupt *)
(* pending.                                                                *)
C22_Witness ==
    /\ Len(lk_stack) = 2
    /\ lk_stack[2] = [task |-> "spi1_interrupt", pc |-> 3, inside |-> TRUE]
    /\ "exti4_15_interrupt" \in lk_pend

====
